---------------------------- MODULE Spec2Model ----------------------------
(***************************************************************************)
(* Sticky Note MCP server: the two tools of server/main.py                 *)
(* (create_sticky_note, read_relevant_sticky_notes), the note log of       *)
(* server/storage.py, the tracker of server/session_state.py and the       *)
(* history providers of server/frameworks.                                 *)
(*                                                                         *)
(* Conventions.  A text is a sequence of one-character strings.  A JSON    *)
(* object (a Python dict) is a function whose domain is its set of keys,   *)
(* so d.get(k) is a test on DOMAIN d.  Python's None for a string-valued   *)
(* slot is the empty string where the code only tests truthiness.          *)
(* Timestamps (entry.timestamp, created_at) are not modelled: no operation *)
(* modelled here branches on them.                                         *)
(***************************************************************************)
EXTENDS Integers, Sequences, FiniteSets, TLC

VARIABLES
    framework,  \* cfg.framework: the provider the server was built with
    history,    \* the Codex history root: [kind, files], files in directory order
    clock,      \* the file system's time, the source of modification times
    chats,      \* the Copilot candidate documents, in discovery order
    notes,      \* the note log sticky_notes.jsonl: one stored dict per line
    shown,      \* SessionNoteTracker._shown: session id -> set of note ids
    inv,        \* the running read_relevant_sticky_notes invocations
    lastCall,   \* history variable: the last tool call, its inputs and outcome
    delivered,  \* history variable: session id -> (log line -> times returned)
    skipped,    \* history variable: session id -> log lines skipped for no match
    loaded      \* history variable: the last load_context call and its result

vars == <<framework, history, clock, chats, notes, shown, inv, lastCall, delivered, skipped, loaded>>

(***************************************************************************)
(* Bounds of the model.                                                    *)
(***************************************************************************)
MaxNotes == 2

MaxAppends == 1

(***************************************************************************)
(* Sequences and dicts.                                                    *)
(***************************************************************************)
Range(s) == {s[i] : i \in 1..Len(s)}

Max(a, b) == IF a >= b THEN a ELSE b

Min(a, b) == IF a <= b THEN a ELSE b

IsPrefix(s, t) == Len(s) <= Len(t) /\ \A i \in 1..Len(s) : s[i] = t[i]

RECURSIVE Reverse(_)
Reverse(s) == IF s = <<>> THEN <<>> ELSE Append(Reverse(Tail(s)), Head(s))

EmptyDict == <<>>

HasKey(d, k) == k \in DOMAIN d

\* d.get(k) where the value is a text: <<>> (falsy) when the key is absent
GetText(d, k) == IF HasKey(d, k) THEN d[k] ELSE <<>>

\* d.get(k) where the value is a string: "" (falsy) when the key is absent
GetStr(d, k) == IF HasKey(d, k) THEN d[k] ELSE ""

\* d.get(k) or {}
GetDict(d, k) == IF HasKey(d, k) THEN d[k] ELSE EmptyDict

(***************************************************************************)
(* server/main.py: patterns, snippets.                                     *)
(* A pattern is a text.  The patterns of the model are literals, and a     *)
(* pattern with an unterminated group "(" is the one re.compile rejects.   *)
(***************************************************************************)
padding == 80

Ellipsis == "..."

compile_regex(pattern) ==
    IF \E i \in 1..Len(pattern) : pattern[i] = "("
    THEN [ok |-> FALSE, err |-> "ValueError", pattern |-> <<>>]
    ELSE [ok |-> TRUE, err |-> "", pattern |-> pattern]

\* does the literal pattern p occur in text at offset i (0-based)?
MatchAt(p, text, i) ==
    /\ i + Len(p) <= Len(text)
    /\ \A k \in 1..Len(p) : text[i + k] = p[k]

\* re.finditer: the spans of the non-overlapping matches, left to right; an
\* empty match is followed by a scan from the next offset
RECURSIVE finditer_from(_, _, _)
finditer_from(p, text, i) ==
    LET hits == {j \in i..(Len(text) - Len(p)) : MatchAt(p, text, j)}
    IN IF hits = {} THEN <<>>
       ELSE LET j == CHOOSE j \in hits : \A h \in hits : j <= h
            IN <<[start |-> j, end |-> j + Len(p)]>>
               \o finditer_from(p, text, IF Len(p) = 0 THEN j + 1 ELSE j + Len(p))

finditer(p, text) == finditer_from(p, text, 0)

\* a window that is marked as clipped also when it ends exactly at a bound of
\* the text
extract_window_inclusive(text, span) ==
    LET window_start == Max(0, span.start - padding)
        window_end == Min(Len(text), span.end + padding)
        prefix == IF span.start - padding >= 0 THEN <<Ellipsis>> ELSE <<>>
        suffix == IF span.end + padding <= Len(text) THEN <<Ellipsis>> ELSE <<>>
    IN prefix \o SubSeq(text, window_start + 1, window_end) \o suffix

extract_window(text, span) ==
    LET window_start == Max(0, span.start - padding)
        window_end == Min(Len(text), span.end + padding)
        prefix == IF window_start > 0 THEN <<Ellipsis>> ELSE <<>>
        suffix == IF window_end < Len(text) THEN <<Ellipsis>> ELSE <<>>
    IN prefix \o SubSeq(text, window_start + 1, window_end) \o suffix

entry_metadata(entry) == [kind |-> entry.kind, role |-> entry.role]

entry_snippets(p, entry) ==
    LET spans == finditer(p, entry.text)
    IN [k \in 1..Len(spans) |->
            [text |-> extract_window(entry.text, spans[k]),
             metadata |-> entry_metadata(entry)]]

\* SessionContext.full_text (frameworks/base.py): the texts of the entries,
\* empty ones left out, joined by newlines
RECURSIVE full_text(_)
full_text(entries) ==
    IF entries = <<>> THEN <<>>
    ELSE LET rest == full_text(Tail(entries))
         IN IF Head(entries).text = <<>> THEN rest
            ELSE IF rest = <<>> THEN Head(entries).text
            ELSE Head(entries).text \o <<"\n">> \o rest

\* an engine that scans the joined text of the context
collect_snippets_joined(p, entries) ==
    IF entries = <<>> THEN <<>>
    ELSE LET spans == finditer(p, full_text(entries))
         IN [k \in 1..Len(spans) |->
                [text |-> extract_window(full_text(entries), spans[k]),
                 metadata |-> entry_metadata(Head(entries))]]

RECURSIVE collect_snippets(_, _)
collect_snippets(p, entries) ==
    IF entries = <<>> THEN <<>>
    ELSE (IF Head(entries).text = <<>> THEN <<>> ELSE entry_snippets(p, Head(entries)))
         \o collect_snippets(p, Tail(entries))

snippet_texts(snippets) == [k \in 1..Len(snippets) |-> snippets[k].text]

(***************************************************************************)
(* server/session_state.py: SessionNoteTracker.  _shown is a defaultdict:  *)
(* a session gets its entry at its first mark_shown.                       *)
(***************************************************************************)
has_shown_always_false(tracker, session_id, note_id) == FALSE

has_shown(tracker, session_id, note_id) ==
    note_id \in (IF session_id \in DOMAIN tracker THEN tracker[session_id] ELSE {})

mark_shown(tracker, session_id, note_id) ==
    [s \in DOMAIN tracker \cup {session_id} |->
        IF s = session_id
        THEN (IF s \in DOMAIN tracker THEN tracker[s] ELSE {}) \cup {note_id}
        ELSE tracker[s]]

\* self._shown.get(session_id, set()): the set of the session and the tracker
\* after the call; get on a defaultdict creates no entry
shown_get(tracker, session_id) ==
    [value |-> IF session_id \in DOMAIN tracker THEN tracker[session_id] ELSE {},
     tracker |-> tracker]

\* the ids no session has been shown
unseen_any_session(tracker, session_id, note_ids) ==
    SelectSeq(note_ids, LAMBDA id : \A s \in DOMAIN tracker : id \notin tracker[s])

unseen(tracker, session_id, note_ids) ==
    SelectSeq(note_ids, LAMBDA id : id \notin shown_get(tracker, session_id).value)

reset(tracker, session_id) == [s \in DOMAIN tracker \ {session_id} |-> tracker[s]]

(***************************************************************************)
(* server/storage.py: StickyNote, StickyNoteStore.                         *)
(* An optional value is None or Some(v).  A datetime is [t, tzinfo]: the   *)
(* wall-clock reading in hours and the offset from UTC, None when naive.   *)
(* A stored line is the dict of to_dict, in which created_at is the text   *)
(* of the UTC reading and an optional key is absent or holds its value.    *)
(***************************************************************************)
None == <<>>

Some(v) == <<v>>

NoSnippets == None

\* the UTC reading: a naive datetime is taken to be UTC, an aware one converted
dt_to_iso(value) ==
    IF value.tzinfo = None THEN [utc |-> value.t]
    ELSE [utc |-> value.t - value.tzinfo[1]]

iso_to_dt(value) == [t |-> value.utc, tzinfo |-> Some(0)]

\* `if self.creator`: neither None nor the empty string
HasCreator(note) == note.creator # None /\ note.creator[1] # ""

\* `if self.trigger_snippets`: neither None nor the empty list
HasSnippets(note) == note.trigger_snippets # None /\ note.trigger_snippets[1] # <<>>

\* a line without the trigger_snippets key, whatever the note holds
to_dict_drop_snippets(note) ==
    IF HasCreator(note)
    THEN [id |-> note.id, message |-> note.message, context_regex |-> note.context_regex,
          created_at |-> dt_to_iso(note.created_at), creator |-> note.creator[1]]
    ELSE [id |-> note.id, message |-> note.message, context_regex |-> note.context_regex,
          created_at |-> dt_to_iso(note.created_at)]

to_dict(note) ==
    IF HasCreator(note) /\ HasSnippets(note)
    THEN [id |-> note.id, message |-> note.message, context_regex |-> note.context_regex,
          created_at |-> dt_to_iso(note.created_at), creator |-> note.creator[1],
          trigger_snippets |-> note.trigger_snippets[1]]
    ELSE IF HasCreator(note)
    THEN [id |-> note.id, message |-> note.message, context_regex |-> note.context_regex,
          created_at |-> dt_to_iso(note.created_at), creator |-> note.creator[1]]
    ELSE IF HasSnippets(note)
    THEN [id |-> note.id, message |-> note.message, context_regex |-> note.context_regex,
          created_at |-> dt_to_iso(note.created_at),
          trigger_snippets |-> note.trigger_snippets[1]]
    ELSE [id |-> note.id, message |-> note.message, context_regex |-> note.context_regex,
          created_at |-> dt_to_iso(note.created_at)]

RequiredKeys == {"id", "message", "context_regex", "created_at"}

\* the lines of the log that are no JSON object: text that json.loads rejects,
\* and valid JSON that is not an object (a number, a string, a list, null);
\* every other line is the dict of a JSON object, none of which has a "json" key
BadJsonLine == [json |-> "invalid"]

NonObjectLine == [json |-> "scalar"]

\* a created_at that datetime.fromisoformat rejects
UnparseableTime == [text |-> "soon"]

\* from_dict returns a note: an object with the four required keys
\* (KeyError otherwise) and a created_at that parses (ValueError otherwise)
WellFormed(line) ==
    /\ RequiredKeys \subseteq DOMAIN line
    /\ HasKey(line.created_at, "utc")

from_dict(payload) ==
    [id |-> payload.id, message |-> payload.message,
     context_regex |-> payload.context_regex,
     created_at |-> iso_to_dt(payload.created_at),
     creator |-> IF HasKey(payload, "creator") /\ payload.creator # ""
                 THEN Some(payload.creator) ELSE None,
     trigger_snippets |-> IF HasKey(payload, "trigger_snippets")
                          THEN Some(payload.trigger_snippets) ELSE None]

store_append_upsert(log, note) ==
    IF \E i \in 1..Len(log) : WellFormed(log[i]) /\ log[i].id = note.id
    THEN [i \in 1..Len(log) |->
            IF WellFormed(log[i]) /\ log[i].id = note.id THEN to_dict(note) ELSE log[i]]
    ELSE Append(log, to_dict(note))

store_append(log, note) == Append(log, to_dict(note))

\* the notes of the log in file order, each with the number of its line
RECURSIVE iter_notes_from(_, _)
iter_notes_from(log, i) ==
    IF i > Len(log) THEN <<>>
    ELSE (IF WellFormed(log[i]) THEN <<[line |-> i, note |-> from_dict(log[i])]>> ELSE <<>>)
         \o iter_notes_from(log, i + 1)

\* from_dict calls payload.get on a value that is no dict: AttributeError, which
\* iter_notes does not catch, so that all_notes raises it
all_notes_raises(log) == \E i \in 1..Len(log) : log[i] = NonObjectLine

all_notes_reversed(log) == Reverse(iter_notes_from(log, 1))

all_notes(log) == iter_notes_from(log, 1)

(***************************************************************************)
(* server/frameworks/codex.py: CodexHistoryProvider.                       *)
(* A file is [name, mtime, lines]; its name is a sequence of parts, the    *)
(* last one the extension, and `session_id in p.name` is the presence of   *)
(* the id among the parts.  A line is                                      *)
(*   [json |-> "invalid"]  text that json.loads rejects (or a blank line), *)
(*   [json |-> "scalar"]   valid JSON that is not an object,               *)
(*   [json |-> "object", item |-> d]  a JSON object d.                     *)
(* An entry is [kind, text, role]; kind is a sequence of strings, so that  *)
(* f"event:{variant}" is <<"event", variant>>.                             *)
(***************************************************************************)
NoiseVariants == {"token_count", "agent_message", "user_message"}

ToolCallVariants == {"function_call", "custom_tool_call", "local_shell_call"}

Whitespace == {" ", "\n", "\t"}

RECURSIVE lstrip(_)
lstrip(t) == IF t # <<>> /\ Head(t) \in Whitespace THEN lstrip(Tail(t)) ELSE t

strip(t) == Reverse(lstrip(Reverse(lstrip(t))))

\* sep.join(parts)
RECURSIVE join(_, _)
join(sep, parts) ==
    IF parts = <<>> THEN <<>>
    ELSE IF Len(parts) = 1 THEN Head(parts)
    ELSE Head(parts) \o sep \o join(sep, Tail(parts))

\* inner if isinstance(inner, dict) and inner else payload
view_of(payload) ==
    IF HasKey(payload, "payload") /\ DOMAIN payload.payload # {}
    THEN payload.payload ELSE payload

entry_from_session_meta(item) ==
    LET payload == GetDict(item, "payload")
        instructions == GetText(payload, "instructions")
    IN IF instructions = <<>> THEN <<>>
       ELSE <<[kind |-> <<"session_meta">>, text |-> instructions, role |-> "system"]>>

\* json.dumps of a string argument: the text between double quotes
json_dumps(arguments) == <<"\"">> \o arguments \o <<"\"">>

format_call_text(name, arguments) ==
    LET parts == (IF name # <<>> THEN <<<<"c", "a", "l", "l", ":">> \o name>> ELSE <<>>)
                 \o (IF arguments # <<>> THEN <<json_dumps(arguments)>> ELSE <<>>)
    IN strip(join(<<" ">>, parts))

\* the texts of the content elements that have one, empty ones dropped
RECURSIVE text_parts(_)
text_parts(content) ==
    IF content = <<>> THEN <<>>
    ELSE (IF HasKey(Head(content), "text") /\ Head(content).text # <<>>
          THEN <<Head(content).text>> ELSE <<>>)
         \o text_parts(Tail(content))

entry_from_response_item(item) ==
    LET payload == GetDict(item, "payload")
        variant == GetStr(payload, "type")
        view == view_of(payload)
    IN IF variant = "message"
       THEN LET text == join(<<"\n">>, text_parts(GetText(view, "content")))
            IN IF text = <<>> THEN <<>>
               ELSE <<[kind |-> <<"message">>, text |-> text, role |-> GetStr(view, "role")]>>
       ELSE IF variant = "reasoning"
       THEN LET text == strip(GetText(view, "text"))
            IN IF text = <<>> THEN <<>>
               ELSE <<[kind |-> <<"reasoning">>, text |-> text, role |-> GetStr(view, "role")]>>
       ELSE IF variant \in ToolCallVariants
       THEN LET name == IF GetText(view, "name") # <<>> THEN GetText(view, "name")
                        ELSE IF GetText(view, "tool_name") # <<>> THEN GetText(view, "tool_name")
                        ELSE GetText(view, "command")
                arguments == IF GetText(view, "arguments") # <<>> THEN GetText(view, "arguments")
                             ELSE GetText(view, "input")
                text == format_call_text(name, arguments)
            IN IF text = <<>> THEN <<>>
               ELSE <<[kind |-> <<variant>>, text |-> text,
                       role |-> IF GetStr(view, "role") # "" THEN GetStr(view, "role")
                                ELSE "assistant"]>>
       ELSE <<>>

\* message = view.get("message") or view.get("text"); None only when the first
\* is absent or falsy and the second is absent
entry_from_event_msg(item) ==
    LET payload == GetDict(item, "payload")
        variant == GetStr(payload, "type")
        view == view_of(payload)
        is_none == GetText(view, "message") = <<>> /\ ~HasKey(view, "text")
        message == IF GetText(view, "message") # <<>> THEN view.message
                   ELSE GetText(view, "text")
    IN IF is_none THEN <<>>
       ELSE <<[kind |-> <<"event", variant>>, text |-> message, role |-> GetStr(view, "role")]>>

\* a mapping that makes an entry of every compacted record
entry_from_compacted_always(item) ==
    <<[kind |-> <<"compacted">>, text |-> GetText(GetDict(item, "payload"), "message"),
       role |-> "assistant"]>>

entry_from_compacted(item) ==
    LET payload == GetDict(item, "payload")
        message == GetText(payload, "message")
    IN IF message = <<>> THEN <<>>
       ELSE <<[kind |-> <<"compacted">>, text |-> message, role |-> "assistant"]>>

\* a loop body without the noise filter of event_msg records
parse_item_no_noise_filter(st, line, session_id) ==
    IF st.crashed \/ line.json = "invalid" THEN st
    ELSE IF line.json = "scalar" THEN [st EXCEPT !.crashed = TRUE]
    ELSE LET item == line.item
             item_type == GetStr(item, "type")
             meta_id == GetStr(GetDict(item, "payload"), "id")
         IN IF item_type = "turn_context" THEN st
            ELSE IF item_type = "session_meta"
            THEN [st EXCEPT
                    !.discovered_id = IF meta_id # "" /\ st.discovered_id = ""
                                      THEN meta_id ELSE st.discovered_id,
                    !.mismatch = st.mismatch \/ (meta_id # "" /\ meta_id # session_id),
                    !.entries = st.entries \o entry_from_session_meta(item)]
            ELSE IF item_type = "response_item"
            THEN [st EXCEPT !.entries = st.entries \o entry_from_response_item(item)]
            ELSE IF item_type = "event_msg"
            THEN [st EXCEPT !.entries = st.entries \o entry_from_event_msg(item)]
            ELSE IF item_type = "compacted"
            THEN [st EXCEPT !.entries = st.entries \o entry_from_compacted(item)]
            ELSE st

\* one pass of the loop over a file's records (codex.py lines 36-64); st is
\* [entries, discovered_id, mismatch, crashed]
parse_item(st, line, session_id) ==
    IF st.crashed \/ line.json = "invalid" THEN st
    ELSE IF line.json = "scalar" THEN [st EXCEPT !.crashed = TRUE]
    ELSE LET item == line.item
             item_type == GetStr(item, "type")
             meta_id == GetStr(GetDict(item, "payload"), "id")
         IN IF item_type = "turn_context" THEN st
            ELSE IF item_type = "session_meta"
            THEN [st EXCEPT
                    !.discovered_id = IF meta_id # "" /\ st.discovered_id = ""
                                      THEN meta_id ELSE st.discovered_id,
                    !.mismatch = st.mismatch \/ (meta_id # "" /\ meta_id # session_id),
                    !.entries = st.entries \o entry_from_session_meta(item)]
            ELSE IF item_type = "response_item"
            THEN [st EXCEPT !.entries = st.entries \o entry_from_response_item(item)]
            ELSE IF item_type = "event_msg"
            THEN IF GetStr(GetDict(item, "payload"), "type") \in NoiseVariants THEN st
                 ELSE [st EXCEPT !.entries = st.entries \o entry_from_event_msg(item)]
            ELSE IF item_type = "compacted"
            THEN [st EXCEPT !.entries = st.entries \o entry_from_compacted(item)]
            ELSE st

RECURSIVE parse_lines(_, _, _, _)
parse_lines(lines, i, st, session_id) ==
    IF i > Len(lines) THEN st
    ELSE parse_lines(lines, i + 1, parse_item(st, lines[i], session_id), session_id)

parse_file(file, session_id) ==
    parse_lines(file.lines, 1,
                [entries |-> <<>>, discovered_id |-> "", mismatch |-> FALSE,
                 crashed |-> FALSE],
                session_id)

JsonlExt == ".jsonl"

IsJsonl(file) == file.name # <<>> /\ file.name[Len(file.name)] = JsonlExt

NameContains(file, session_id) == \E k \in 1..Len(file.name) : file.name[k] = session_id

RECURSIVE SelectSeq2(_, _, _)
SelectSeq2(s, session_id, want) ==
    IF s = <<>> THEN <<>>
    ELSE (IF IsJsonl(Head(s)) /\ NameContains(Head(s), session_id) = want
          THEN <<Head(s)>> ELSE <<>>)
         \o SelectSeq2(Tail(s), session_id, want)

\* sorted(files, key=mtime, reverse=True): stable, so files of equal mtime keep
\* their order
RECURSIVE sorted_by_mtime_desc(_)
sorted_by_mtime_desc(s) ==
    IF s = <<>> THEN <<>>
    ELSE LET k == CHOOSE k \in 1..Len(s) :
                    /\ \A j \in 1..Len(s) : s[j].mtime <= s[k].mtime
                    /\ \A j \in 1..(k - 1) : s[j].mtime < s[k].mtime
             rest == [j \in 1..(Len(s) - 1) |-> IF j < k THEN s[j] ELSE s[j + 1]]
         IN <<s[k]>> \o sorted_by_mtime_desc(rest)

candidate_paths(root, session_id) ==
    IF root.kind = "file" THEN [ok |-> TRUE, paths |-> root.files]
    ELSE IF root.kind = "missing" THEN [ok |-> FALSE, paths |-> <<>>]
    ELSE IF \A k \in 1..Len(root.files) : ~IsJsonl(root.files[k])
    THEN [ok |-> FALSE, paths |-> <<>>]
    ELSE [ok |-> TRUE,
          paths |-> sorted_by_mtime_desc(SelectSeq2(root.files, session_id, TRUE))
                    \o sorted_by_mtime_desc(SelectSeq2(root.files, session_id, FALSE))]

Failure(err) == [ok |-> FALSE, err |-> err, session_id |-> "", entries |-> <<>>]

Context(session_id, entries) ==
    [ok |-> TRUE, err |-> "", session_id |-> session_id, entries |-> entries]

\* a loop that answers with an empty context when no candidate produced an
\* entry
RECURSIVE codex_scan_empty_ok(_, _, _, _)
codex_scan_empty_ok(paths, i, fallback, session_id) ==
    IF i > Len(paths)
    THEN IF fallback # <<>> THEN Context(session_id, fallback[1])
         ELSE Context(session_id, <<>>)
    ELSE LET parsed == parse_file(paths[i], session_id)
         IN IF parsed.crashed THEN Failure("AttributeError")
            ELSE IF parsed.entries = <<>>
            THEN codex_scan_empty_ok(paths, i + 1, fallback, session_id)
            ELSE IF parsed.discovered_id = session_id
            THEN Context(session_id, parsed.entries)
            ELSE codex_scan_empty_ok(paths, i + 1,
                                     IF fallback = <<>> THEN <<parsed.entries>> ELSE fallback,
                                     session_id)

\* the loop over the candidates (codex.py lines 31-87); fallback is <<>> or
\* <<entries>>
RECURSIVE codex_scan(_, _, _, _)
codex_scan(paths, i, fallback, session_id) ==
    IF i > Len(paths)
    THEN IF fallback # <<>> THEN Context(session_id, fallback[1])
         ELSE Failure("FileNotFoundError")
    ELSE LET parsed == parse_file(paths[i], session_id)
         IN IF parsed.crashed THEN Failure("AttributeError")
            ELSE IF parsed.entries = <<>> THEN codex_scan(paths, i + 1, fallback, session_id)
            ELSE IF parsed.discovered_id = session_id
            THEN Context(session_id, parsed.entries)
            ELSE codex_scan(paths, i + 1,
                            IF fallback = <<>> THEN <<parsed.entries>> ELSE fallback,
                            session_id)

codex_load_context(root, session_id) ==
    IF session_id = "" THEN Failure("ValueError")
    ELSE LET candidates == candidate_paths(root, session_id)
         IN IF ~candidates.ok THEN Failure("FileNotFoundError")
            ELSE codex_scan(candidates.paths, 1, <<>>, session_id)

(***************************************************************************)
(* server/frameworks/copilot.py: CopilotHistoryProvider.                   *)
(* chats is the list _find_session_files returns (the discovered paths,    *)
(* deduplicated, in the order list(set(...)) gives them).  A candidate is  *)
(* [stem, ext, mtime, doc]; doc is [parse |-> "invalid"] when json.load or *)
(* the walk over the document raises, else [parse |-> "ok", requests].     *)
(***************************************************************************)
JsonExt == ".json"

\* f"Tool Call: {tool_id}\nArguments: {input_args}"; an absent value prints None
tool_call_text(fragment) ==
    <<"Tool Call: ">>
    \o (IF HasKey(fragment, "toolId") THEN fragment.toolId ELSE <<"None">>)
    \o <<"\nArguments: ">>
    \o (IF HasKey(GetDict(fragment, "resultDetails"), "input")
        THEN fragment.resultDetails.input ELSE <<"None">>)

RECURSIVE response_entries(_)
response_entries(response) ==
    IF response = <<>> THEN <<>>
    ELSE LET resp_item == Head(response)
             resp_value == GetText(resp_item, "value")
         IN (IF resp_value # <<>>
             THEN <<[kind |-> <<"message">>, text |-> resp_value, role |-> "assistant"]>>
             ELSE IF GetStr(resp_item, "kind") = "toolInvocationSerialized"
             THEN <<[kind |-> <<"tool_call">>, text |-> tool_call_text(resp_item),
                     role |-> "assistant"]>>
             ELSE <<>>)
            \o response_entries(Tail(response))

RECURSIVE request_entries(_)
request_entries(requests) ==
    IF requests = <<>> THEN <<>>
    ELSE LET req == Head(requests)
             user_text == GetText(GetDict(req, "message"), "text")
         IN (IF user_text # <<>>
             THEN <<[kind |-> <<"message">>, text |-> user_text, role |-> "user"]>>
             ELSE <<>>)
            \o response_entries(GetText(req, "response"))
            \o request_entries(Tail(requests))

parse_history_file(path) ==
    IF path.doc.parse = "invalid" THEN [ok |-> FALSE, entries |-> <<>>]
    ELSE [ok |-> TRUE, entries |-> request_entries(path.doc.requests)]

load_file(path, session_id) ==
    LET parsed == parse_history_file(path)
    IN IF ~parsed.ok THEN Failure("JSONDecodeError")
       ELSE IF parsed.entries # <<>> THEN Context(session_id, parsed.entries)
       ELSE Failure("ValueError")

\* a fallback loop that gives up at the first file that fails to load
RECURSIVE copilot_scan_stop_at_failure(_, _)
copilot_scan_stop_at_failure(paths, i) ==
    IF i > Len(paths) THEN Failure("FileNotFoundError")
    ELSE LET context == load_file(paths[i], paths[i].stem)
         IN IF context.ok THEN context ELSE Failure("FileNotFoundError")

\* the fallback loop (copilot.py lines 55-75): every exception is caught
RECURSIVE copilot_scan(_, _)
copilot_scan(paths, i) ==
    IF i > Len(paths) THEN Failure("FileNotFoundError")
    ELSE LET context == load_file(paths[i], paths[i].stem)
         IN IF context.ok THEN context ELSE copilot_scan(paths, i + 1)

IsExactMatch(path, session_id) == path.stem = session_id /\ path.ext = JsonExt

\* a resolution that goes on to the other candidates when the file named
\* after the session fails to load
copilot_load_context_retry(candidates, session_id) ==
    IF candidates = <<>> THEN Failure("FileNotFoundError")
    ELSE IF session_id # "" /\ \E k \in 1..Len(candidates) : IsExactMatch(candidates[k], session_id)
    THEN LET k == CHOOSE k \in 1..Len(candidates) :
                    /\ IsExactMatch(candidates[k], session_id)
                    /\ \A j \in 1..(k - 1) : ~IsExactMatch(candidates[j], session_id)
             context == load_file(candidates[k], session_id)
         IN IF context.ok THEN context
            ELSE copilot_scan(sorted_by_mtime_desc(candidates), 1)
    ELSE copilot_scan(sorted_by_mtime_desc(candidates), 1)

copilot_load_context(candidates, session_id) ==
    IF candidates = <<>> THEN Failure("FileNotFoundError")
    ELSE IF session_id # "" /\ \E k \in 1..Len(candidates) : IsExactMatch(candidates[k], session_id)
    THEN LET k == CHOOSE k \in 1..Len(candidates) :
                    /\ IsExactMatch(candidates[k], session_id)
                    /\ \A j \in 1..(k - 1) : ~IsExactMatch(candidates[j], session_id)
         IN load_file(candidates[k], session_id)
    ELSE copilot_scan(sorted_by_mtime_desc(candidates), 1)

(***************************************************************************)
(* server/frameworks/__init__.py, server/config.py: the provider chosen by *)
(* the configured framework.                                               *)
(***************************************************************************)
DEFAULT_FRAMEWORK == "codex"

load_context(fw, root, candidates, session_id) ==
    IF fw = "codex" THEN codex_load_context(root, session_id)
    ELSE copilot_load_context(candidates, session_id)

(***************************************************************************)
(* server/main.py: the two tools.  A result payload carries, besides the   *)
(* message and the snippets, the number of the log line it came from: the  *)
(* code's payload has no id, and the properties need the provenance.       *)
(***************************************************************************)
NoId == <<"none", 0>>

\* uuid4().hex: an id no stored note has
uuid4(log) == <<"uuid", Len(log) + 1>>

\* what the loop body of read_relevant_sticky_notes does with one note
note_decision(tracker, note, entries, session_id) ==
    IF has_shown(tracker, session_id, note.id) THEN "seen"
    ELSE IF ~compile_regex(note.context_regex).ok THEN "invalid"
    ELSE IF collect_snippets(compile_regex(note.context_regex).pattern, entries) = <<>>
    THEN "nomatch"
    ELSE "deliver"

payload_of(rec, entries) ==
    [message |-> rec.note.message,
     trigger_snippets |->
        snippet_texts(collect_snippets(compile_regex(rec.note.context_regex).pattern, entries)),
     line |-> rec.line]

read_iter_no_mark(acc, rec, entries, session_id) ==
    IF note_decision(acc.tracker, rec.note, entries, session_id) = "deliver"
    THEN [acc EXCEPT !.results = Append(acc.results, payload_of(rec, entries))]
    ELSE acc

read_iter_mark_unmatched(acc, rec, entries, session_id) ==
    LET d == note_decision(acc.tracker, rec.note, entries, session_id)
    IN IF d = "deliver"
       THEN [tracker |-> mark_shown(acc.tracker, session_id, rec.note.id),
             results |-> Append(acc.results, payload_of(rec, entries))]
       ELSE IF d = "nomatch"
       THEN [acc EXCEPT !.tracker = mark_shown(acc.tracker, session_id, rec.note.id)]
       ELSE acc

\* one pass of the loop (main.py lines 144-163); acc is [tracker, results]
read_iter(acc, rec, entries, session_id) ==
    IF note_decision(acc.tracker, rec.note, entries, session_id) = "deliver"
    THEN [tracker |-> mark_shown(acc.tracker, session_id, rec.note.id),
          results |-> Append(acc.results, payload_of(rec, entries))]
    ELSE acc

RECURSIVE read_loop_break_on_invalid(_, _, _, _, _)
read_loop_break_on_invalid(all, k, acc, entries, session_id) ==
    IF k > Len(all) \/ ~compile_regex(all[k].note.context_regex).ok THEN acc
    ELSE read_loop_break_on_invalid(all, k + 1, read_iter(acc, all[k], entries, session_id),
                                    entries, session_id)

RECURSIVE read_loop(_, _, _, _, _)
read_loop(all, k, acc, entries, session_id) ==
    IF k > Len(all) THEN acc
    ELSE read_loop(all, k + 1, read_iter(acc, all[k], entries, session_id),
                   entries, session_id)

\* FileNotFoundError becomes RuntimeError; any other error leaves the tool as is
tool_error(context) ==
    IF context.err = "FileNotFoundError" THEN "RuntimeError" ELSE context.err

read_relevant_sticky_notes(fw, root, candidates, log, tracker, session_id) ==
    IF session_id = ""
    THEN [outcome |-> "RuntimeError", loaded |-> FALSE, entries |-> <<>>,
          tracker |-> tracker, results |-> <<>>]
    ELSE LET context == load_context(fw, root, candidates, session_id)
         IN IF ~context.ok
            THEN [outcome |-> tool_error(context), loaded |-> FALSE, entries |-> <<>>,
                  tracker |-> tracker, results |-> <<>>]
            ELSE IF all_notes_raises(log)
            THEN [outcome |-> "AttributeError", loaded |-> TRUE, entries |-> context.entries,
                  tracker |-> tracker, results |-> <<>>]
            ELSE LET acc == read_loop(all_notes(log), 1,
                                      [tracker |-> tracker, results |-> <<>>],
                                      context.entries, session_id)
                 IN [outcome |-> "ok", loaded |-> TRUE, entries |-> context.entries,
                     tracker |-> acc.tracker, results |-> acc.results]

\* datetime.now(timezone.utc); the clock of the notes does not advance
timestamp_now == [t |-> 0, tzinfo |-> Some(0)]

\* the snippet texts of a new note
created_snippets(context, context_regex) ==
    snippet_texts(collect_snippets(compile_regex(context_regex).pattern, context.entries))

new_note(log, context, message, context_regex, note_id) ==
    [id |-> IF note_id # NoId THEN note_id ELSE uuid4(log),
     message |-> message,
     context_regex |-> context_regex,
     created_at |-> timestamp_now,
     creator |-> None,
     trigger_snippets |-> IF created_snippets(context, context_regex) = <<>> THEN None
                          ELSE Some(created_snippets(context, context_regex))]

CreateFailure(err, log) ==
    [outcome |-> err, log |-> log, id |-> NoId, trigger_snippets |-> <<>>]

create_sticky_note_append_early(fw, root, candidates, log, session_id, message, context_regex, note_id) ==
    IF session_id = "" THEN CreateFailure("RuntimeError", log)
    ELSE IF message = <<>> THEN CreateFailure("ValueError", log)
    ELSE IF ~compile_regex(context_regex).ok THEN CreateFailure("ValueError", log)
    ELSE LET context == load_context(fw, root, candidates, session_id)
             note == new_note(log, context, message, context_regex, note_id)
         IN IF ~context.ok
            THEN CreateFailure(tool_error(context), store_append(log, note))
            ELSE [outcome |-> "ok", log |-> store_append(log, note), id |-> note.id,
                  trigger_snippets |-> created_snippets(context, context_regex)]

create_sticky_note(fw, root, candidates, log, session_id, message, context_regex, note_id) ==
    IF session_id = "" THEN CreateFailure("RuntimeError", log)
    ELSE IF message = <<>> THEN CreateFailure("ValueError", log)
    ELSE IF ~compile_regex(context_regex).ok THEN CreateFailure("ValueError", log)
    ELSE LET context == load_context(fw, root, candidates, session_id)
             note == new_note(log, context, message, context_regex, note_id)
         IN IF ~context.ok THEN CreateFailure(tool_error(context), log)
            ELSE [outcome |-> "ok", log |-> store_append(log, note), id |-> note.id,
                  trigger_snippets |-> created_snippets(context, context_regex)]

(***************************************************************************)
(* The server with its tools called one at a time (Spec).                  *)
(* The history root is a directory with the rollout file of one session;   *)
(* the agent host appends records to it between the calls.  The note log   *)
(* outlives the process, so the server may start on a log that holds notes *)
(* it did not validate.                                                    *)
(***************************************************************************)
Sessions == {"s1", "s2"}

ValidPatterns == {<<"a">>, <<"b">>}

InvalidPattern == <<"(">>

GivenId == <<"given", 1>>

\* the calls of create_sticky_note: every combination of well-formed arguments,
\* and one call for each defect an argument can have
CreateArgs ==
    [session_id : Sessions, message : {<<"m">>}, context_regex : ValidPatterns,
     note_id : {NoId, GivenId}]
    \cup {[session_id |-> "", message |-> <<"m">>, context_regex |-> <<"a">>, note_id |-> NoId],
          [session_id |-> "s1", message |-> <<>>, context_regex |-> <<"a">>, note_id |-> NoId],
          [session_id |-> "s1", message |-> <<"m">>, context_regex |-> InvalidPattern,
           note_id |-> NoId]}

CallerSessions == Sessions \cup {""}

MetaLine(id, instructions) ==
    [json |-> "object",
     item |-> IF instructions = <<>>
              THEN [type |-> "session_meta", payload |-> [id |-> id]]
              ELSE [type |-> "session_meta",
                    payload |-> [id |-> id, instructions |-> instructions]]]

MessageLine(text) ==
    [json |-> "object",
     item |-> [type |-> "response_item",
               payload |-> [type |-> "message",
                            payload |-> [role |-> "user",
                                         content |-> <<[type |-> "input_text",
                                                        text |-> text]>>]]]]

HistoryLines == {MessageLine(<<"a">>)}

RolloutFile(session_id, instructions) ==
    [name |-> <<"rollout", session_id, JsonlExt>>, mtime |-> 0,
     lines |-> <<MetaLine(session_id, instructions)>>]

\* the history root at the start: a directory with the rollout file of the
\* first session, which carries instructions (the second session has no file of
\* its own), or a root that is missing
InitHistories ==
    {[kind |-> "dir", files |-> <<RolloutFile("s1", <<"b">>)>>],
     [kind |-> "missing", files |-> <<>>]}

StoredNote(id, context_regex) ==
    to_dict([id |-> id, message |-> <<"m">>, context_regex |-> context_regex,
             created_at |-> timestamp_now, creator |-> None,
             trigger_snippets |-> NoSnippets])

\* the note log at the start: notes of earlier runs, among them one whose
\* pattern does not compile (the log is a plain file that outlives the server)
InitLogs ==
    {<<StoredNote(GivenId, <<"a">>)>>,
     <<StoredNote(<<"given", 2>>, InvalidPattern)>>,
     <<StoredNote(GivenId, <<"a">>), StoredNote(<<"given", 2>>, InvalidPattern)>>}

\* the defects of a call's arguments
Defects(session_id, message, context_regex) ==
    (IF session_id = "" THEN {"session"} ELSE {})
    \cup (IF message = <<>> THEN {"message"} ELSE {})
    \cup (IF ~compile_regex(context_regex).ok THEN {"regex"} ELSE {})

NoCall ==
    [op |-> "none", session_id |-> "", outcome |-> "", results |-> <<>>, before |-> {},
     defects |-> {}, id |-> NoId]

NotLoaded == [provider |-> "none", session_id |-> "", result |-> Failure("")]

Idle == [pc |-> "idle", session_id |-> "", entries |-> <<>>, all |-> <<>>, k |-> 0,
         results |-> <<>>]

Slots == {1, 2}

\* the ids shown to a session
ShownTo(tracker, session_id) ==
    IF session_id \in DOMAIN tracker THEN tracker[session_id] ELSE {}

\* the note ids of a result list, read off the log
ResultIds(log, results) == {log[results[k].line].id : k \in 1..Len(results)}

\* delivered, with one more delivery of every result to the session
Deliver(d, session_id, results) ==
    LET lines == [k \in 1..Len(results) |-> results[k].line]
        old == d[session_id]
        count(l) == Cardinality({k \in 1..Len(lines) : lines[k] = l})
    IN [d EXCEPT ![session_id] =
            [l \in DOMAIN old \cup Range(lines) |->
                (IF l \in DOMAIN old THEN old[l] ELSE 0) + count(l)]]

\* the log lines whose note the loop of read_relevant_sticky_notes examines and
\* skips for lack of a match
RECURSIVE SkippedLines(_, _, _, _, _)
SkippedLines(all, k, acc, entries, session_id) ==
    IF k > Len(all) THEN {}
    ELSE (IF note_decision(acc.tracker, all[k].note, entries, session_id) = "nomatch"
          THEN {all[k].line} ELSE {})
         \cup SkippedLines(all, k + 1, read_iter(acc, all[k], entries, session_id),
                           entries, session_id)

Init ==
    /\ framework = DEFAULT_FRAMEWORK
    /\ history \in InitHistories
    /\ clock = 0
    /\ chats = <<>>
    /\ notes \in InitLogs
    /\ shown = <<>>
    /\ inv = [t \in Slots |-> Idle]
    /\ lastCall = NoCall
    /\ delivered = [s \in Sessions |-> <<>>]
    /\ skipped = [s \in Sessions |-> {}]
    /\ loaded = NotLoaded

CreateStickyNote(session_id, message, context_regex, note_id) ==
    LET r == create_sticky_note(framework, history, chats, notes, session_id, message,
                                context_regex, note_id)
    IN /\ r.outcome = "ok" => Len(notes) < MaxNotes
       /\ notes' = r.log
       /\ lastCall' = [NoCall EXCEPT !.op = "create", !.session_id = session_id,
                                     !.outcome = r.outcome,
                                     !.before = ShownTo(shown, session_id),
                                     !.defects = Defects(session_id, message, context_regex),
                                     !.id = r.id]
       /\ UNCHANGED <<framework, history, clock, chats, shown, inv, delivered, skipped, loaded>>

ReadRelevantStickyNotes(session_id) ==
    LET r == read_relevant_sticky_notes(framework, history, chats, notes, shown, session_id)
    IN /\ shown' = r.tracker
       /\ lastCall' = [NoCall EXCEPT !.op = "read", !.session_id = session_id,
                                     !.outcome = r.outcome, !.results = r.results,
                                     !.before = ShownTo(shown, session_id)]
       /\ delivered' = IF r.outcome = "ok"
                       THEN Deliver(delivered, session_id, r.results)
                       ELSE delivered
       /\ skipped' = IF r.outcome = "ok"
                     THEN [skipped EXCEPT ![session_id] =
                            @ \cup SkippedLines(all_notes(notes), 1,
                                                [tracker |-> shown, results |-> <<>>],
                                                r.entries, session_id)]
                     ELSE skipped
       /\ UNCHANGED <<framework, history, clock, chats, notes, inv, loaded>>

\* the agent host writes one more record to a rollout file
AppendHistory(k, line) ==
    /\ clock < MaxAppends
    /\ clock' = clock + 1
    /\ history' = [history EXCEPT !.files[k].lines = Append(@, line),
                                  !.files[k].mtime = clock + 1]
    /\ lastCall' = NoCall
    /\ UNCHANGED <<framework, chats, notes, shown, inv, delivered, skipped, loaded>>

Next ==
    \/ \E c \in CreateArgs :
            CreateStickyNote(c.session_id, c.message, c.context_regex, c.note_id)
    \/ \E s \in CallerSessions : ReadRelevantStickyNotes(s)
    \/ \E k \in 1..Len(history.files), line \in HistoryLines : AppendHistory(k, line)

Spec == Init /\ [][Next]_vars

(***************************************************************************)
(* Properties of the tools called one at a time.                           *)
(* After a call of read_relevant_sticky_notes nothing has changed the      *)
(* history or the log while lastCall still names it (AppendHistory and     *)
(* CreateStickyNote replace lastCall), so the context and the notes the    *)
(* call saw are those of the current state.                                *)
(***************************************************************************)
Matches(note, entries) ==
    /\ compile_regex(note.context_regex).ok
    /\ collect_snippets(compile_regex(note.context_regex).pattern, entries) # <<>>

NoteAt(line) == from_dict(notes[line])

LastRead == lastCall.op = "read" /\ lastCall.outcome = "ok"

LastContext == load_context(framework, history, chats, lastCall.session_id)

DeliveredIds(session_id) == {notes[l].id : l \in DOMAIN delivered[session_id]}

\* C1: a note id is returned to a session at most once over all the calls; a
\* read returns no id the session was shown before, and it returns every id
\* not shown before that has a note matching the reloaded context.
C1_AtMostOnce ==
    /\ \A s \in Sessions :
        /\ \A l \in DOMAIN delivered[s] : delivered[s][l] = 1
        /\ \A l1, l2 \in DOMAIN delivered[s] : l1 # l2 => notes[l1].id # notes[l2].id
    /\ LastRead =>
        /\ ResultIds(notes, lastCall.results) \cap lastCall.before = {}
        /\ \A rec \in Range(all_notes(notes)) :
              (Matches(rec.note, LastContext.entries) /\ rec.note.id \notin lastCall.before)
              => rec.note.id \in ResultIds(notes, lastCall.results)

\* a read that returns nothing although a note shown before still matches
C1_Witness ==
    /\ LastRead
    /\ lastCall.results = <<>>
    /\ \E rec \in Range(all_notes(notes)) :
          Matches(rec.note, LastContext.entries) /\ rec.note.id \in lastCall.before

\* C3: the ids marked shown for a session are exactly the ids returned to it;
\* a read marks exactly the ids of its results, and every result is a note
\* whose pattern compiles and matches.
C3_ShownIffReturned ==
    /\ DOMAIN shown \subseteq Sessions
    /\ \A s \in Sessions : ShownTo(shown, s) = DeliveredIds(s)
    /\ LastRead =>
        /\ ShownTo(shown, lastCall.session_id)
             = lastCall.before \cup ResultIds(notes, lastCall.results)
        /\ \A k \in 1..Len(lastCall.results) :
              Matches(NoteAt(lastCall.results[k].line), LastContext.entries)

\* a read that returns a note and leaves a note without a match unmarked
C3_Witness ==
    /\ LastRead
    /\ lastCall.results # <<>>
    /\ \E rec \in Range(all_notes(notes)) :
          /\ compile_regex(rec.note.context_regex).ok
          /\ ~Matches(rec.note, LastContext.entries)
          /\ rec.note.id \notin ShownTo(shown, lastCall.session_id)

\* C4 as claimed: after a read, no record that an earlier read of the session
\* skipped for lack of a match matches the context and is still unreturned.
C4_SkippedRecordReturned ==
    LastRead =>
        \A l \in skipped[lastCall.session_id] :
            Matches(NoteAt(l), LastContext.entries)
            => l \in DOMAIN delivered[lastCall.session_id]

\* C4 amended: ... unless another record with the same id was returned to the
\* session.
C4_SkippedRecordReturnedUnlessIdDelivered ==
    LastRead =>
        \A l \in skipped[lastCall.session_id] :
            Matches(NoteAt(l), LastContext.entries)
            => \/ l \in DOMAIN delivered[lastCall.session_id]
               \/ \E l2 \in DOMAIN delivered[lastCall.session_id] :
                     l2 # l /\ notes[l2].id = notes[l].id

\* a read returns a record that an earlier read of the session had skipped
C4_Witness ==
    /\ LastRead
    /\ \E k \in 1..Len(lastCall.results) :
          lastCall.results[k].line \in skipped[lastCall.session_id]

\* C5: with a note in the log whose pattern does not compile, a read whose
\* context loads succeeds, and returns and marks every id not shown before
\* that has a matching note.
C5_InvalidRegexSkipped ==
    (/\ lastCall.op = "read"
     /\ lastCall.session_id # ""
     /\ LastContext.ok
     /\ \E rec \in Range(all_notes(notes)) : ~compile_regex(rec.note.context_regex).ok)
    => /\ lastCall.outcome = "ok"
       /\ \A rec \in Range(all_notes(notes)) :
             (Matches(rec.note, LastContext.entries) /\ rec.note.id \notin lastCall.before)
             => /\ rec.note.id \in ResultIds(notes, lastCall.results)
                /\ rec.note.id \in ShownTo(shown, lastCall.session_id)

\* a read returns a note stored after a note whose pattern does not compile
C5_Witness ==
    /\ LastRead
    /\ \E k \in 1..Len(lastCall.results), rec \in Range(all_notes(notes)) :
          /\ ~compile_regex(rec.note.context_regex).ok
          /\ rec.line < lastCall.results[k].line

\* C6: the results of a read are in the order of the log.
C6_LogOrder ==
    LastRead =>
        \A j, k \in 1..Len(lastCall.results) :
            j < k => lastCall.results[j].line < lastCall.results[k].line

\* a read returns two notes
C6_Witness == LastRead /\ Len(lastCall.results) >= 2

\* C7: a call of create_sticky_note with a missing session id, an empty
\* message or a pattern that does not compile, or for a session whose history
\* does not load, fails; a failing call leaves the log and the tracker as
\* they were.
C7_CreateFailsCleanly ==
    [][lastCall'.op = "create" =>
        /\ (\/ lastCall'.defects # {}
            \/ ~load_context(framework, history, chats, lastCall'.session_id).ok)
           => lastCall'.outcome # "ok"
        /\ lastCall'.outcome # "ok" => (notes' = notes /\ shown' = shown)]_vars

\* a call with well-formed arguments fails for lack of a history
C7_Witness ==
    /\ lastCall.op = "create"
    /\ lastCall.defects = {}
    /\ lastCall.outcome = "RuntimeError"

\* C8: every step leaves the log a prefix of what it becomes; a successful
\* create adds exactly one record, at the end, with the id it returns; a read
\* leaves the log unchanged.
C8_AppendOnly ==
    [][/\ IsPrefix(notes, notes')
       /\ Len(notes') <= Len(notes) + 1
       /\ (lastCall'.op = "create" /\ lastCall'.outcome = "ok")
          => (Len(notes') = Len(notes) + 1 /\ notes'[Len(notes')].id = lastCall'.id)
       /\ lastCall'.op = "read" => notes' = notes]_vars

\* a note was created under the id of a note that is still in the log
C8_Witness ==
    /\ lastCall.op = "create"
    /\ lastCall.outcome = "ok"
    /\ \E l \in 1..(Len(notes) - 1) : notes[l].id = lastCall.id

(***************************************************************************)
(* Two invocations of read_relevant_sticky_notes that overlap (SpecConc).  *)
(* The tool is a plain function with no lock; when the host runs two calls *)
(* on two threads, a thread switch can fall between any two statements of  *)
(* the loop.  An invocation is [pc, session_id, entries, all, k, results]: *)
(* the context and the notes it loaded, the index of the note it is at and *)
(* the results so far.  The steps are the load (lines 138-144), the test   *)
(* of one note (lines 145-156) and the mark and append (lines 158-163).    *)
(***************************************************************************)
ConcHistory ==
    [kind |-> "dir",
     files |-> <<[name |-> <<"rollout", "s1", JsonlExt>>, mtime |-> 0,
                  lines |-> <<MetaLine("s1", <<"b">>), MessageLine(<<"a">>)>>]>>]

ConcLogs ==
    {<<StoredNote(GivenId, <<"a">>)>>,
     <<StoredNote(GivenId, <<"a">>), StoredNote(<<"given", 2>>, <<"b">>)>>,
     <<StoredNote(<<"given", 2>>, InvalidPattern), StoredNote(GivenId, <<"b">>)>>}

InitConc ==
    /\ framework = DEFAULT_FRAMEWORK
    /\ history = ConcHistory
    /\ clock = 0
    /\ chats = <<>>
    /\ notes \in ConcLogs
    /\ shown = <<>>
    /\ inv = [t \in Slots |-> Idle]
    /\ lastCall = NoCall
    /\ delivered = [s \in Sessions |-> <<>>]
    /\ skipped = [s \in Sessions |-> {}]
    /\ loaded = NotLoaded

ReadBegin(t, session_id) ==
    LET context == load_context(framework, history, chats, session_id)
    IN /\ inv[t].pc = "idle"
       /\ context.ok
       /\ inv' = [inv EXCEPT ![t] = [pc |-> "loop", session_id |-> session_id,
                                     entries |-> context.entries,
                                     all |-> all_notes(notes), k |-> 1,
                                     results |-> <<>>]]
       /\ UNCHANGED <<framework, history, clock, chats, notes, shown, lastCall,
                      delivered, skipped, loaded>>

ReadExamine(t) ==
    LET c == inv[t]
    IN /\ c.pc = "loop"
       /\ c.k <= Len(c.all)
       /\ inv' = IF note_decision(shown, c.all[c.k].note, c.entries, c.session_id) = "deliver"
                 THEN [inv EXCEPT ![t].pc = "mark"]
                 ELSE [inv EXCEPT ![t].k = c.k + 1]
       /\ UNCHANGED <<framework, history, clock, chats, notes, shown, lastCall,
                      delivered, skipped, loaded>>

ReadMark(t) ==
    LET c == inv[t]
    IN /\ c.pc = "mark"
       /\ shown' = mark_shown(shown, c.session_id, c.all[c.k].note.id)
       /\ inv' = [inv EXCEPT ![t].pc = "loop", ![t].k = c.k + 1,
                             ![t].results = Append(c.results, payload_of(c.all[c.k], c.entries))]
       /\ UNCHANGED <<framework, history, clock, chats, notes, lastCall, delivered,
                      skipped, loaded>>

ReadReturn(t) ==
    LET c == inv[t]
    IN /\ c.pc = "loop"
       /\ c.k > Len(c.all)
       /\ inv' = [inv EXCEPT ![t].pc = "done"]
       /\ delivered' = Deliver(delivered, c.session_id, c.results)
       /\ lastCall' = [NoCall EXCEPT !.op = "read", !.session_id = c.session_id,
                                     !.outcome = "ok", !.results = c.results]
       /\ UNCHANGED <<framework, history, clock, chats, notes, shown, skipped, loaded>>

NextConc ==
    \/ \E t \in Slots, s \in Sessions : ReadBegin(t, s)
    \/ \E t \in Slots : ReadExamine(t)
    \/ \E t \in Slots : ReadMark(t)
    \/ \E t \in Slots : ReadReturn(t)

SpecConc == InitConc /\ [][NextConc]_vars

\* C2: two invocations for the same session never both hold the same note id
\* in their results.
C2_NoDuplicateDelivery ==
    \A t1, t2 \in Slots :
        (t1 # t2 /\ inv[t1].pc # "idle" /\ inv[t2].pc # "idle"
         /\ inv[t1].session_id = inv[t2].session_id)
        => ResultIds(notes, inv[t1].results) \cap ResultIds(notes, inv[t2].results) = {}

(***************************************************************************)
(* The providers' load_context over the layouts of the history (SpecLoad). *)
(* The history is drawn at the start from the layouts of at most MaxFiles  *)
(* files; a step is one call of the configured provider's load_context,    *)
(* whose outcome is kept in loaded = [provider, session_id, result].       *)
(***************************************************************************)
MaxFiles == 2

MTimes == {1, 2}

ScalarLine == [json |-> "scalar"]

InvalidLine == [json |-> "invalid"]

NoiseLine == [json |-> "object", item |-> [type |-> "event_msg", payload |-> [type |-> "token_count"]]]

\* the contents of a rollout file: nothing; a session_meta with instructions;
\* a session_meta of another session and a message; a session_meta without
\* instructions; a message and nothing that declares an id; a JSON line that is
\* not an object; lines that are skipped
CodexBodies ==
    {<<>>,
     <<MetaLine("s1", <<"a">>)>>,
     <<MetaLine("s2", <<"b">>), MessageLine(<<"a">>)>>,
     <<MetaLine("s1", <<>>)>>,
     <<MessageLine(<<"b">>)>>,
     <<ScalarLine>>,
     <<InvalidLine, NoiseLine>>}

CodexNames == {<<"rollout", "s1", JsonlExt>>, <<"rollout", "x", JsonlExt>>}

CodexFiles ==
    [name : CodexNames, mtime : MTimes, lines : CodexBodies]
    \cup {[name |-> <<"notes", ".txt">>, mtime |-> 1, lines |-> <<MessageLine(<<"a">>)>>]}

SeqsUpTo(S, n) == UNION {[1..m -> S] : m \in 0..n}

CodexRoots ==
    {[kind |-> "missing", files |-> <<>>]}
    \cup {[kind |-> "dir", files |-> fs] : fs \in SeqsUpTo(CodexFiles, MaxFiles)}
    \cup {[kind |-> "file", files |-> <<f>>] : f \in CodexFiles}

\* the documents of a chat session: one json.load rejects; no request; a
\* request with a user text; a request with a response value; a request with
\* a serialized tool invocation
CopilotDocs ==
    {[parse |-> "invalid"],
     [parse |-> "ok", requests |-> <<>>],
     [parse |-> "ok", requests |-> <<[message |-> [text |-> <<"a">>]]>>],
     [parse |-> "ok", requests |-> <<[response |-> <<[value |-> <<"b">>]>>]>>],
     [parse |-> "ok",
      requests |-> <<[response |-> <<[kind |-> "toolInvocationSerialized",
                                      toolId |-> <<"t">>]>>]>>]}

CopilotFiles == [stem : {"s1", "x"}, ext : {JsonExt}, mtime : MTimes, doc : CopilotDocs]

\* a history root that is itself a file, of a name that does not end in .json
CopilotRootFiles == [stem : {"s1"}, ext : {".txt"}, mtime : {1}, doc : CopilotDocs]

InitLoad ==
    /\ \/ /\ framework = "codex"
          /\ history \in CodexRoots
          /\ chats = <<>>
       \/ /\ framework = "copilot"
          /\ history = [kind |-> "missing", files |-> <<>>]
          /\ chats \in SeqsUpTo(CopilotFiles, MaxFiles) \cup {<<f>> : f \in CopilotRootFiles}
    /\ clock = 0
    /\ notes = <<>>
    /\ shown = <<>>
    /\ inv = [t \in Slots |-> Idle]
    /\ lastCall = NoCall
    /\ delivered = [s \in Sessions |-> <<>>]
    /\ skipped = [s \in Sessions |-> {}]
    /\ loaded = NotLoaded

CodexLoadContext(session_id) ==
    /\ framework = "codex"
    /\ loaded' = [provider |-> "codex", session_id |-> session_id,
                  result |-> codex_load_context(history, session_id)]
    /\ UNCHANGED <<framework, history, clock, chats, notes, shown, inv, lastCall,
                   delivered, skipped>>

CopilotLoadContext(session_id) ==
    /\ framework = "copilot"
    /\ loaded' = [provider |-> "copilot", session_id |-> session_id,
                  result |-> copilot_load_context(chats, session_id)]
    /\ UNCHANGED <<framework, history, clock, chats, notes, shown, inv, lastCall,
                   delivered, skipped>>

NextLoad ==
    \/ \E s \in CallerSessions : CodexLoadContext(s)
    \/ \E s \in CallerSessions : CopilotLoadContext(s)

SpecLoad == InitLoad /\ [][NextLoad]_vars

\* the candidate files of the last Codex call, in candidate order
LoadedPaths == candidate_paths(history, loaded.session_id)

\* a file the loop gets through with at least one entry
Produces(file, session_id) ==
    LET parsed == parse_file(file, session_id)
    IN ~parsed.crashed /\ parsed.entries # <<>>

HasNonObjectLine(file) == \E k \in 1..Len(file.lines) : file.lines[k].json = "scalar"

HasExactName(session_id) == \E k \in 1..Len(chats) : IsExactMatch(chats[k], session_id)

ExactPlaces ==
    {k \in 1..Len(LoadedPaths.paths) :
        /\ Produces(LoadedPaths.paths[k], loaded.session_id)
        /\ parse_file(LoadedPaths.paths[k], loaded.session_id).discovered_id
           = loaded.session_id}

\* C10: when a candidate file that produces an entry declares the requested id,
\* Codex load_context returns the entries of the first such file in candidate
\* order.
C10_ExactMatchFirst ==
    (/\ loaded.provider = "codex"
     /\ loaded.session_id # ""
     /\ LoadedPaths.ok
     /\ ExactPlaces # {})
    => LET k0 == CHOOSE k \in ExactPlaces : \A j \in ExactPlaces : k <= j
       IN /\ loaded.result.ok
          /\ loaded.result.entries
             = parse_file(LoadedPaths.paths[k0], loaded.session_id).entries

\* the places, in candidate order, of the files that produce an entry
ProducingPlaces ==
    {k \in 1..Len(LoadedPaths.paths) : Produces(LoadedPaths.paths[k], loaded.session_id)}

\* C11: when no candidate file that produces an entry declares the requested
\* id, Codex load_context returns the entries of the first file in candidate
\* order that produces an entry, under the requested session id.
C11_FallbackFirst ==
    (/\ loaded.provider = "codex"
     /\ loaded.session_id # ""
     /\ LoadedPaths.ok
     /\ ExactPlaces = {}
     /\ ProducingPlaces # {})
    => LET k0 == CHOOSE k \in ProducingPlaces : \A j \in ProducingPlaces : k <= j
       IN /\ loaded.result.ok
          /\ loaded.result.entries
             = parse_file(LoadedPaths.paths[k0], loaded.session_id).entries
          /\ loaded.result.session_id = loaded.session_id

(***************************************************************************)
(* The record-to-entry mapping (SpecParse).                                *)
(* The history root is a single rollout file of at most MaxLines lines     *)
(* drawn from the record forms the parser distinguishes, or, for Copilot,  *)
(* a single chat document; a step is one call of load_context.             *)
(***************************************************************************)
MaxLines == 2

EventLine(payload) == [json |-> "object", item |-> [type |-> "event_msg", payload |-> payload]]

ResponseLine(payload) ==
    [json |-> "object", item |-> [type |-> "response_item", payload |-> payload]]

\* event_msg records: the three noise variants, carrying text; agent_reasoning
\* with a text, an empty text, an empty message, a message, neither field, an
\* empty message beside a text, and a text inside an inner payload
EventLines ==
    {EventLine([type |-> "token_count", message |-> <<"n">>]),
     EventLine([type |-> "agent_message", message |-> <<"n">>]),
     EventLine([type |-> "user_message", text |-> <<"n">>]),
     EventLine([type |-> "agent_reasoning", text |-> <<"t">>]),
     EventLine([type |-> "agent_reasoning", text |-> <<>>]),
     EventLine([type |-> "agent_reasoning", message |-> <<>>]),
     EventLine([type |-> "agent_reasoning", message |-> <<"m">>]),
     EventLine([type |-> "agent_reasoning"]),
     EventLine([type |-> "agent_reasoning", message |-> <<>>, text |-> <<"t">>]),
     EventLine([type |-> "agent_reasoning", payload |-> [text |-> <<"t">>]])}

\* the other records: turn_context; session_meta with and without
\* instructions; a message with and without text; reasoning with a text and
\* with blank text; a tool call with and without a name; compacted with and
\* without a message
OtherLines ==
    {[json |-> "object", item |-> [type |-> "turn_context", payload |-> [text |-> <<"n">>]]],
     MetaLine("s1", <<"i">>),
     MetaLine("s2", <<>>),
     MessageLine(<<"a">>),
     MessageLine(<<>>),
     ResponseLine([type |-> "reasoning", text |-> <<"r">>]),
     ResponseLine([type |-> "reasoning", text |-> <<" ">>]),
     ResponseLine([type |-> "function_call", name |-> <<"f">>]),
     ResponseLine([type |-> "function_call"]),
     [json |-> "object", item |-> [type |-> "compacted", payload |-> [message |-> <<"c">>]]],
     [json |-> "object", item |-> [type |-> "compacted", payload |-> EmptyDict]]}

RecordLines == EventLines \cup OtherLines \cup {InvalidLine, ScalarLine}

ParseRoots ==
    {[kind |-> "file",
      files |-> <<[name |-> <<"rollout", "s1", JsonlExt>>, mtime |-> 1, lines |-> ls]>>] :
        ls \in SeqsUpTo(RecordLines, MaxLines)}

\* chat documents: those of CopilotDocs, and requests whose user text or
\* response value is empty
ParseDocs ==
    CopilotDocs
    \cup {[parse |-> "ok", requests |-> <<[message |-> [text |-> <<>>]]>>],
          [parse |-> "ok",
           requests |-> <<[message |-> [text |-> <<"a">>],
                           response |-> <<[value |-> <<>>], [value |-> <<"b">>]>>]>>]}

InitParse ==
    /\ \/ /\ framework = "codex"
          /\ history \in ParseRoots
          /\ chats = <<>>
       \/ /\ framework = "copilot"
          /\ history = [kind |-> "missing", files |-> <<>>]
          /\ \E d \in ParseDocs : chats = <<[stem |-> "s1", ext |-> JsonExt, mtime |-> 1, doc |-> d]>>
    /\ clock = 0
    /\ notes = <<>>
    /\ shown = <<>>
    /\ inv = [t \in Slots |-> Idle]
    /\ lastCall = NoCall
    /\ delivered = [s \in Sessions |-> <<>>]
    /\ skipped = [s \in Sessions |-> {}]
    /\ loaded = NotLoaded

NextParse ==
    \/ \E s \in Sessions : CodexLoadContext(s)
    \/ \E s \in Sessions : CopilotLoadContext(s)

SpecParse == InitParse /\ [][NextParse]_vars

\* the lines of the rollout file that is the history root
LoadedLines == history.files[1].lines

IsEventLine(line) == line.json = "object" /\ GetStr(line.item, "type") = "event_msg"

EventVariant(line) == GetStr(GetDict(line.item, "payload"), "type")

\* the record the fields of an event are taken from: the inner payload
EventView(line) == view_of(GetDict(line.item, "payload"))

\* the text an event carries: its message, else its text
EventText(line) ==
    IF GetText(EventView(line), "message") # <<>> THEN EventView(line).message
    ELSE GetText(EventView(line), "text")

NoiseKinds == {<<"turn_context">>} \cup {<<"event", v>> : v \in NoiseVariants}

\* the lines that are event_msg records of a variant outside the noise set
KeptEventLines ==
    {k \in 1..Len(LoadedLines) :
        IsEventLine(LoadedLines[k]) /\ EventVariant(LoadedLines[k]) \notin NoiseVariants}

\* the entries of the last call that come from event_msg records
EventEntries ==
    {j \in 1..Len(loaded.result.entries) : loaded.result.entries[j].kind[1] = "event"}

\* C12: a context returned by Codex load_context holds no entry of kind
\* turn_context, event:token_count, event:agent_message or event:user_message,
\* and each event_msg of another variant that carries text is in it as one entry
\* of kind event:<variant> with that text.
C12_NoiseFiltered ==
    (loaded.provider = "codex" /\ loaded.result.ok)
    => LET entries == loaded.result.entries
           texted == {k \in KeptEventLines : EventText(LoadedLines[k]) # <<>>}
       IN /\ \A j \in 1..Len(entries) : entries[j].kind \notin NoiseKinds
          /\ \A k \in texted :
                \E j \in EventEntries :
                    /\ entries[j].kind = <<"event", EventVariant(LoadedLines[k])>>
                    /\ entries[j].text = EventText(LoadedLines[k])
          /\ Cardinality({j \in EventEntries : entries[j].text # <<>>}) = Cardinality(texted)

\* a context was returned for a file that holds a noise event carrying text and
\* an agent_reasoning event carrying text
C12_Witness ==
    /\ loaded.provider = "codex"
    /\ loaded.result.ok
    /\ \E k \in 1..Len(LoadedLines) :
            /\ IsEventLine(LoadedLines[k])
            /\ EventVariant(LoadedLines[k]) \in NoiseVariants
            /\ EventText(LoadedLines[k]) # <<>>
    /\ \E k \in KeptEventLines : EventText(LoadedLines[k]) # <<>>

\* the message or the text field is present in the event's inner record
EventFieldPresent(line) == HasKey(EventView(line), "message") \/ HasKey(EventView(line), "text")

\* C13: an event_msg record of a variant outside the noise set yields an entry
\* if and only if its message or text field is present, an empty string counting
\* as present.
C13_EventEntryIffFieldPresent ==
    (/\ loaded.provider = "codex"
     /\ loaded.result.ok \/ loaded.result.err = "FileNotFoundError")
    => Cardinality(EventEntries)
       = Cardinality({k \in KeptEventLines : EventFieldPresent(LoadedLines[k])})

\* C14: every entry of every context returned by either provider has
\* non-empty text.
C14_NonEmptyText ==
    loaded.result.ok
    => \A j \in 1..Len(loaded.result.entries) : loaded.result.entries[j].text # <<>>

\* the event_msg lines outside the noise set whose text field is present and
\* empty and whose message is absent or empty
EmptyTextEventLines ==
    {k \in KeptEventLines :
        /\ HasKey(EventView(LoadedLines[k]), "text")
        /\ EventView(LoadedLines[k]).text = <<>>
        /\ GetText(EventView(LoadedLines[k]), "message") = <<>>}

\* C14 (amended): every entry of a returned context has non-empty text, except
\* the Codex entries of kind event:<variant> that come from an event_msg record
\* whose text field is present and empty and whose message is absent or empty:
\* each such record yields one entry with empty text.
C14_NonEmptyTextExceptEmptyEvent ==
    loaded.result.ok
    => LET entries == loaded.result.entries
           empty == {j \in 1..Len(entries) : entries[j].text = <<>>}
       IN IF loaded.provider = "codex"
          THEN /\ \A j \in empty :
                    \E k \in EmptyTextEventLines :
                        entries[j].kind = <<"event", EventVariant(LoadedLines[k])>>
               /\ Cardinality(empty) = Cardinality(EmptyTextEventLines)
          ELSE empty = {}

\* a record without a text to extract (a compacted record without a message)
\* stands beside the record of an entry in the file of a returned context
C14_Witness ==
    /\ loaded.provider = "codex"
    /\ loaded.result.ok
    /\ \E k \in 1..Len(LoadedLines) :
            /\ LoadedLines[k].json = "object"
            /\ GetStr(LoadedLines[k].item, "type") = "compacted"
            /\ GetText(GetDict(LoadedLines[k].item, "payload"), "message") = <<>>
    /\ Len(loaded.result.entries) = 1
    /\ loaded.result.entries[1].text # <<>>

IsRecordLine(line) == line.json = "object"

\* the history root with the lines that are not record objects taken out of
\* its file
CleanedRoot == [history EXCEPT !.files[1].lines = SelectSeq(@, IsRecordLine)]

\* C15: a line that is not valid JSON, or is JSON but not an object, is skipped:
\* Codex load_context gives what it gives for the same file without such lines.
C15_MalformedLinesSkipped ==
    loaded.provider = "codex"
    => loaded.result = codex_load_context(CleanedRoot, loaded.session_id)

\* the first candidate named <session id>.json
ExactCandidate(session_id) ==
    chats[CHOOSE k \in 1..Len(chats) :
            /\ IsExactMatch(chats[k], session_id)
            /\ \A j \in 1..(k - 1) : ~IsExactMatch(chats[j], session_id)]

\* the candidate is a document that parses into at least one entry
Loads(path) == path.doc.parse = "ok" /\ request_entries(path.doc.requests) # <<>>

LoadingPlaces == {k \in 1..Len(chats) : Loads(chats[k])}

\* C17: when no candidate is named after the requested id, Copilot load_context
\* returns the most recently modified candidate that yields an entry, under
\* that file's base name, and fails with FileNotFoundError when there is none.
C17_FallbackNewestValid ==
    (loaded.provider = "copilot" /\ ~HasExactName(loaded.session_id))
    => LET r == loaded.result
       IN IF LoadingPlaces = {}
          THEN ~r.ok /\ r.err = "FileNotFoundError"
          ELSE /\ r.ok
               /\ \E k \in LoadingPlaces :
                    /\ \A j \in LoadingPlaces : chats[j].mtime <= chats[k].mtime
                    /\ \A j \in LoadingPlaces : j < k => chats[j].mtime < chats[k].mtime
                    /\ r.session_id = chats[k].stem
                    /\ r.entries = request_entries(chats[k].doc.requests)

\* a newer candidate that does not load was passed over, and the context
\* returned bears another id than the requested one
C17_Witness ==
    /\ loaded.provider = "copilot"
    /\ ~HasExactName(loaded.session_id)
    /\ loaded.result.ok
    /\ loaded.result.session_id # loaded.session_id
    /\ loaded.session_id # ""
    /\ \E k \in 1..Len(chats) :
            /\ ~Loads(chats[k])
            /\ \A j \in LoadingPlaces : chats[j].mtime < chats[k].mtime

(***************************************************************************)
(* The matching engine under read_relevant_sticky_notes (SpecSnip).        *)
(* The history is one rollout file; its entries are either one long text   *)
(* with a single occurrence of "abcde" at a chosen distance from both ends *)
(* or several short texts.  The note log holds notes of earlier runs.      *)
(***************************************************************************)
Fill(n) == [i \in 1..n |-> "x"]

Needle == <<"a", "b", "c", "d", "e">>

\* the lengths of the text before and after the occurrence
LeftFills == {0, 79, 80, 81, 150}

RightFills == {0, 45, 76, 77, 80, 81}

LongTexts == {Fill(l) \o Needle \o Fill(r) : l \in LeftFills, r \in RightFills}

ReasoningLine(text) == ResponseLine([type |-> "reasoning", text |-> text])

\* the records of a history of short entries
ShortBodies ==
    {<<MessageLine(<<"a", "b">>), ReasoningLine(<<"a", "b">>)>>,
     <<MessageLine(<<"a", "a", "a">>), ReasoningLine(<<"a", "b", "a">>)>>,
     <<ReasoningLine(<<"b">>), MessageLine(<<"a", "a", "a", "a">>), ReasoningLine(<<"a">>)>>}

SnipHistories ==
    {[kind |-> "dir",
      files |-> <<[name |-> <<"rollout", "s1", JsonlExt>>, mtime |-> 0, lines |-> ls]>>] :
        ls \in {<<MessageLine(t)>> : t \in LongTexts} \cup ShortBodies}

\* the patterns of the stored notes; the last one matches the newline-joined
\* text of two entries and none of the entries
SnipPatterns == {<<"a">>, Needle, <<"a", "a">>, <<"b", "\n", "a">>}

SnipLogs ==
    {<<StoredNote(GivenId, p)>> : p \in SnipPatterns}
    \cup {<<StoredNote(GivenId, <<"b", "\n", "a">>), StoredNote(<<"given", 2>>, <<"a">>)>>}

InitSnip ==
    /\ framework = DEFAULT_FRAMEWORK
    /\ history \in SnipHistories
    /\ clock = 0
    /\ chats = <<>>
    /\ notes \in SnipLogs
    /\ shown = <<>>
    /\ inv = [t \in Slots |-> Idle]
    /\ lastCall = NoCall
    /\ delivered = [s \in Sessions |-> <<>>]
    /\ skipped = [s \in Sessions |-> {}]
    /\ loaded = NotLoaded

NextSnip == \E s \in Sessions : ReadRelevantStickyNotes(s)

SpecSnip == InitSnip /\ [][NextSnip]_vars

\* text[max(0, start-80) : min(len(text), end+80)] between its ellipses
ClaimWindow(text, start, end) ==
    LET lo == IF start - 80 > 0 THEN start - 80 ELSE 0
        hi == IF end + 80 < Len(text) THEN end + 80 ELSE Len(text)
    IN (IF start - 80 > 0 THEN <<Ellipsis>> ELSE <<>>)
       \o [i \in 1..(hi - lo) |-> text[lo + i]]
       \o (IF end + 80 < Len(text) THEN <<Ellipsis>> ELSE <<>>)

\* C18: the snippet of a match (start, end) in a text is
\* text[max(0, start-80) : min(len(text), end+80)], with a leading ellipsis
\* exactly when start-80 > 0 and a trailing one exactly when end+80 < len(text).
C18_SnippetWindow ==
    (LastRead /\ Len(LastContext.entries) = 1)
    => \A k \in 1..Len(lastCall.results) :
          LET text == LastContext.entries[1].text
              spans == finditer(NoteAt(lastCall.results[k].line).context_regex, text)
          IN lastCall.results[k].trigger_snippets
             = [m \in 1..Len(spans) |-> ClaimWindow(text, spans[m].start, spans[m].end)]

\* a text of length 200 matched at 150-155: the snippet is an ellipsis and the
\* text from offset 70 to its end
C18_Witness ==
    /\ LastRead
    /\ Len(LastContext.entries) = 1
    /\ Len(LastContext.entries[1].text) = 200
    /\ \E k \in 1..Len(lastCall.results) :
          /\ NoteAt(lastCall.results[k].line).context_regex = Needle
          /\ finditer(Needle, LastContext.entries[1].text) = <<[start |-> 150, end |-> 155]>>
          /\ lastCall.results[k].trigger_snippets
             = <<<<Ellipsis>> \o SubSeq(LastContext.entries[1].text, 71, 200)>>

\* the pattern occurs in the text
Occurs(p, text) == \E i \in 0..Len(text) : MatchAt(p, text, i)

\* spans are the non-overlapping occurrences of p in text, from the left: each
\* is an occurrence, each starts where the one before has ended or later, and
\* every other occurrence starts inside one of them
NonOverlapping(p, text, spans) ==
    /\ \A m \in 1..Len(spans) :
          /\ MatchAt(p, text, spans[m].start)
          /\ spans[m].end = spans[m].start + Len(p)
    /\ \A m \in 1..(Len(spans) - 1) : spans[m].end <= spans[m + 1].start
    /\ \A i \in 0..Len(text) :
          (MatchAt(p, text, i) /\ \A m \in 1..Len(spans) : spans[m].start # i)
          => \E m \in 1..Len(spans) : spans[m].start < i /\ i < spans[m].end

\* the number of matches in the entries before the e-th
RECURSIVE MatchesBefore(_, _, _)
MatchesBefore(p, entries, e) ==
    IF e <= 1 THEN 0
    ELSE MatchesBefore(p, entries, e - 1) + Len(finditer(p, entries[e - 1].text))

StoreIds == {GivenId, <<"given", 2>>}

StoreTimes == {[t |-> 5, tzinfo |-> None], [t |-> 5, tzinfo |-> Some(0)],
               [t |-> 5, tzinfo |-> Some(1)]}

StoreCreators == {None, Some(""), Some("bob")}

StoreSnippets == {None, Some(<<>>), Some(<<<<"a", "b">>>>)}

StoreNotes ==
    [id : StoreIds, message : {<<"m">>}, context_regex : {<<"a">>},
     created_at : StoreTimes, creator : StoreCreators, trigger_snippets : StoreSnippets]

InitStore ==
    /\ framework = DEFAULT_FRAMEWORK
    /\ history = [kind |-> "missing"]
    /\ clock = 0
    /\ chats = <<>>
    /\ notes = <<>>
    /\ shown = <<>>
    /\ inv = [t \in Slots |-> Idle]
    /\ lastCall = NoCall
    /\ delivered = [s \in Sessions |-> <<>>]
    /\ skipped = [s \in Sessions |-> {}]
    /\ loaded = NotLoaded

\* store.append(note), storage.py lines 74-76
StoreAppend(note) ==
    /\ Len(notes) < MaxNotes
    /\ notes' = store_append(notes, note)
    /\ lastCall' = [op |-> "append", note |-> note]
    /\ UNCHANGED <<framework, history, clock, chats, shown, inv, delivered, skipped, loaded>>

NextStore == \E note \in StoreNotes : StoreAppend(note)

SpecStore == InitStore /\ [][NextStore]_vars

\* the line the last append wrote, and the note all_notes reads from it
LastLine == notes[Len(notes)]

ReadBack == all_notes(notes)[Len(all_notes(notes))].note

\* C20 as stated: after an append of any StickyNote, all_notes returns one note
\* per line and its last note has the id, message, context_regex and
\* trigger_snippets of the appended note and a created_at with timezone
\* information; the line has no creator and no trigger_snippets key when the
\* note's field is absent.
C20_RoundTrip ==
    lastCall.op = "append" =>
        /\ Len(all_notes(notes)) = Len(notes)
        /\ ReadBack.id = lastCall.note.id
        /\ ReadBack.message = lastCall.note.message
        /\ ReadBack.context_regex = lastCall.note.context_regex
        /\ ReadBack.trigger_snippets = lastCall.note.trigger_snippets
        /\ ReadBack.created_at.tzinfo # None
        /\ lastCall.note.creator = None => ~HasKey(LastLine, "creator")
        /\ lastCall.note.trigger_snippets = None => ~HasKey(LastLine, "trigger_snippets")

\* C20, amended: the same, except that a note holding the empty list of
\* trigger_snippets is read back with trigger_snippets absent; every other
\* value of trigger_snippets is read back unchanged.
C20_RoundTripEmptyListAbsent ==
    lastCall.op = "append" =>
        /\ Len(all_notes(notes)) = Len(notes)
        /\ ReadBack.id = lastCall.note.id
        /\ ReadBack.message = lastCall.note.message
        /\ ReadBack.context_regex = lastCall.note.context_regex
        /\ ReadBack.trigger_snippets =
              (IF lastCall.note.trigger_snippets = Some(<<>>) THEN None
               ELSE lastCall.note.trigger_snippets)
        /\ ReadBack.created_at.tzinfo # None
        /\ lastCall.note.creator = None => ~HasKey(LastLine, "creator")
        /\ lastCall.note.trigger_snippets = None => ~HasKey(LastLine, "trigger_snippets")

\* a second append, of a note with a naive created_at, no creator and one
\* snippet, read back with that snippet
C20_Witness ==
    /\ lastCall.op = "append"
    /\ Len(notes) = 2
    /\ lastCall.note.created_at.tzinfo = None
    /\ lastCall.note.creator = None
    /\ lastCall.note.trigger_snippets = Some(<<<<"a", "b">>>>)
    /\ ReadBack.trigger_snippets = Some(<<<<"a", "b">>>>)
    /\ ReadBack.created_at.tzinfo = Some(0)
    /\ ~HasKey(LastLine, "creator")

(***************************************************************************)
(* The note log as a file that outlives the server: any lines, well-formed *)
(* or not, read with all_notes and extended with append.                   *)
(***************************************************************************)
MaxLogLines == 3

LogNote(id) ==
    [id |-> id, message |-> <<"m">>, context_regex |-> <<"a">>,
     created_at |-> timestamp_now, creator |-> None, trigger_snippets |-> None]

\* an object without the message key, and one whose created_at does not parse
NoMessageLine == [id |-> GivenId, context_regex |-> <<"a">>, created_at |-> [utc |-> 0]]

BadTimeLine ==
    [id |-> GivenId, message |-> <<"m">>, context_regex |-> <<"a">>,
     created_at |-> UnparseableTime]

LogLines ==
    {to_dict(LogNote(id)) : id \in StoreIds}
    \cup {BadJsonLine, NonObjectLine, NoMessageLine, BadTimeLine}

InitLog ==
    /\ framework = DEFAULT_FRAMEWORK
    /\ history = [kind |-> "missing"]
    /\ clock = 0
    /\ chats = <<>>
    /\ notes \in SeqsUpTo(LogLines, MaxLogLines)
    /\ shown = <<>>
    /\ inv = [t \in Slots |-> Idle]
    /\ lastCall = NoCall
    /\ delivered = [s \in Sessions |-> <<>>]
    /\ skipped = [s \in Sessions |-> {}]
    /\ loaded = NotLoaded

\* store.all_notes(), storage.py lines 78-100
AllNotes ==
    /\ lastCall' = IF all_notes_raises(notes)
                   THEN [op |-> "all_notes", outcome |-> "AttributeError", notes |-> <<>>]
                   ELSE [op |-> "all_notes", outcome |-> "ok",
                         notes |-> [k \in 1..Len(all_notes(notes)) |-> all_notes(notes)[k].note]]
    /\ UNCHANGED <<framework, history, clock, chats, notes, shown, inv, delivered, skipped,
                   loaded>>

NextLog == AllNotes \/ \E id \in StoreIds : StoreAppend(LogNote(id))

SpecLog == InitLog /\ [][NextLog]_vars

\* the malformed lines the claim names
IsMalformed(line) ==
    \/ line = BadJsonLine
    \/ line = NonObjectLine
    \/ ~(RequiredKeys \subseteq DOMAIN line)
    \/ line.created_at = UnparseableTime

RECURSIVE WithoutMalformed(_)
WithoutMalformed(log) ==
    IF log = <<>> THEN <<>>
    ELSE (IF IsMalformed(Head(log)) THEN <<>> ELSE <<Head(log)>>) \o WithoutMalformed(Tail(log))

\* C21: all_notes never fails, and returns the notes of the well-formed lines
\* in file order, as if the malformed lines were absent.
C21_MalformedNoteLinesSkipped ==
    lastCall.op = "all_notes" =>
        /\ lastCall.outcome = "ok"
        /\ lastCall.notes =
              [k \in 1..Len(WithoutMalformed(notes)) |-> from_dict(WithoutMalformed(notes)[k])]

(***************************************************************************)
(* The tracker on its own: mark_shown, has_shown, unseen and reset in any  *)
(* order.  delivered[s] lists the ids marked shown for session s since its *)
(* last reset, each once, in the order of their first mark.                *)
(***************************************************************************)
MaxInput == 2

TrackIds == {"n1", "n2"}

UnseenInputs == SeqsUpTo(TrackIds, MaxInput)

InitTrack ==
    /\ framework = DEFAULT_FRAMEWORK
    /\ history = [kind |-> "missing"]
    /\ clock = 0
    /\ chats = <<>>
    /\ notes = <<>>
    /\ shown = <<>>
    /\ inv = [t \in Slots |-> Idle]
    /\ lastCall = NoCall
    /\ delivered = [s \in Sessions |-> <<>>]
    /\ skipped = [s \in Sessions |-> {}]
    /\ loaded = NotLoaded

MarkShown(session_id, note_id) ==
    /\ shown' = mark_shown(shown, session_id, note_id)
    /\ delivered' = [delivered EXCEPT ![session_id] =
                        IF note_id \in Range(@) THEN @ ELSE Append(@, note_id)]
    /\ lastCall' = [op |-> "mark_shown", session_id |-> session_id, note_id |-> note_id,
                    before |-> shown]
    /\ UNCHANGED <<framework, history, clock, chats, notes, inv, skipped, loaded>>

HasShown(session_id, note_id) ==
    /\ shown' = shown_get(shown, session_id).tracker
    /\ lastCall' = [op |-> "has_shown", session_id |-> session_id, note_id |-> note_id,
                    before |-> shown, result |-> has_shown(shown, session_id, note_id)]
    /\ UNCHANGED <<framework, history, clock, chats, notes, inv, delivered, skipped, loaded>>

Unseen(session_id, note_ids) ==
    /\ shown' = shown_get(shown, session_id).tracker
    /\ lastCall' = [op |-> "unseen", session_id |-> session_id, note_ids |-> note_ids,
                    before |-> shown, result |-> unseen(shown, session_id, note_ids)]
    /\ UNCHANGED <<framework, history, clock, chats, notes, inv, delivered, skipped, loaded>>

Reset(session_id) ==
    /\ shown' = reset(shown, session_id)
    /\ delivered' = [delivered EXCEPT ![session_id] = <<>>]
    /\ lastCall' = [op |-> "reset", session_id |-> session_id, before |-> shown]
    /\ UNCHANGED <<framework, history, clock, chats, notes, inv, skipped, loaded>>

NextTrack ==
    \/ \E s \in Sessions, id \in TrackIds : MarkShown(s, id)
    \/ \E s \in Sessions, id \in TrackIds : HasShown(s, id)
    \/ \E s \in Sessions, ids \in UnseenInputs : Unseen(s, ids)
    \/ \E s \in Sessions : Reset(s)

SpecTrack == InitTrack /\ [][NextTrack]_vars

\* C22: unseen returns, in input order, the ids not marked shown for the
\* session since its last reset; unseen and has_shown leave the tracker as it
\* was, with no entry for a session that had none; a second mark_shown of the
\* same id changes nothing.
C22_UnseenAndPurity ==
    /\ lastCall.op = "unseen" =>
          /\ lastCall.result =
                SelectSeq(lastCall.note_ids,
                          LAMBDA id : id \notin Range(delivered[lastCall.session_id]))
          /\ shown = lastCall.before
          /\ DOMAIN shown = DOMAIN lastCall.before
    /\ lastCall.op = "has_shown" =>
          /\ shown = lastCall.before
          /\ DOMAIN shown = DOMAIN lastCall.before
    /\ lastCall.op = "mark_shown" =>
          mark_shown(shown, lastCall.session_id, lastCall.note_id) = shown

\* unseen for a session after a reset and a new mark, while the other session
\* holds the id that is returned: one id filtered, one kept
C22_Witness ==
    /\ lastCall.op = "unseen"
    /\ lastCall.session_id = "s1"
    /\ lastCall.note_ids = <<"n2", "n1">>
    /\ lastCall.result = <<"n2">>
    /\ delivered["s1"] = <<"n1">>
    /\ "n2" \in Range(delivered["s2"])
    /\ "s1" \in DOMAIN shown

(***************************************************************************)
(* The tools with the notes of each session followed from their creation   *)
(* to the session's next read.  skipped[s] holds the log lines of the      *)
(* notes session s created with a non-empty trigger_snippets result and    *)
(* has not called read_relevant_sticky_notes since.  The server starts on  *)
(* a log that is empty or holds one line: a note, or a line of valid JSON  *)
(* that is no object.                                                      *)
(***************************************************************************)
OwnLogs ==
    {<<>>, <<StoredNote(GivenId, <<"b">>)>>, <<StoredNote(<<"given", 2>>, <<"a">>)>>,
     <<NonObjectLine>>}

OwnArgs == [session_id : Sessions, context_regex : ValidPatterns, note_id : {NoId, GivenId}]

InitOwn ==
    /\ framework = DEFAULT_FRAMEWORK
    /\ history \in InitHistories
    /\ clock = 0
    /\ chats = <<>>
    /\ notes \in OwnLogs
    /\ shown = <<>>
    /\ inv = [t \in Slots |-> Idle]
    /\ lastCall = NoCall
    /\ delivered = [s \in Sessions |-> <<>>]
    /\ skipped = [s \in Sessions |-> {}]
    /\ loaded = NotLoaded

CreateOwn(session_id, context_regex, note_id) ==
    LET r == create_sticky_note(framework, history, chats, notes, session_id, <<"m">>,
                                context_regex, note_id)
    IN /\ r.outcome = "ok" => Len(notes) < MaxNotes
       /\ notes' = r.log
       /\ skipped' = IF r.outcome = "ok" /\ r.trigger_snippets # <<>>
                     THEN [skipped EXCEPT ![session_id] = @ \cup {Len(r.log)}]
                     ELSE skipped
       /\ lastCall' = [op |-> "create", session_id |-> session_id, outcome |-> r.outcome,
                       results |-> <<>>, before |-> ShownTo(shown, session_id),
                       created |-> {}]
       /\ UNCHANGED <<framework, history, clock, chats, shown, inv, delivered, loaded>>

ReadOwn(session_id) ==
    LET r == read_relevant_sticky_notes(framework, history, chats, notes, shown, session_id)
    IN /\ shown' = r.tracker
       /\ skipped' = [skipped EXCEPT ![session_id] = {}]
       /\ lastCall' = [op |-> "read", session_id |-> session_id, outcome |-> r.outcome,
                       results |-> r.results, before |-> ShownTo(shown, session_id),
                       created |-> skipped[session_id]]
       /\ UNCHANGED <<framework, history, clock, chats, notes, inv, delivered, loaded>>

NextOwn ==
    \/ \E c \in OwnArgs : CreateOwn(c.session_id, c.context_regex, c.note_id)
    \/ \E s \in Sessions : ReadOwn(s)
    \/ \E k \in 1..Len(history.files), line \in HistoryLines : AppendHistory(k, line)

SpecOwn == InitOwn /\ [][NextOwn]_vars

\* C23: a read returns every note the session created with a match since its
\* previous read, if the note still matches the context of the read and no note
\* with its id was shown to the session before the read.
C23_CreatorReadsOwnNote ==
    lastCall.op = "read" =>
        \A l \in lastCall.created :
            (/\ LastContext.ok
             /\ Matches(NoteAt(l), LastContext.entries)
             /\ notes[l].id \notin lastCall.before)
            => \E k \in 1..Len(lastCall.results) : lastCall.results[k].line = l

=============================================================================
